---- MODULE Spec2Model ----
(***************************************************************************)
(* Shipment / workflow consistency and alert escalation of the customs     *)
(* clearance backend (backend/app).  The committed contents of the         *)
(* relational store are the variables shipments, steps, audit_logs and     *)
(* alerts; a row's id is its index.  Each request handler or task runs in  *)
(* a worker with its own session: obj[w] is the ORM object the worker      *)
(* loaded, and every action is one database statement or one commit of a   *)
(* handler, so that the interleavings of two handlers are the ones the     *)
(* store allows.  Dates are day numbers.                                   *)
(***************************************************************************)
EXTENDS Integers, Sequences, FiniteSets, Bags, TLC

\* ---------------------------------------------------------------- bounds
MaxOps == 3          \* requests started in one behaviour
MaxEtaOps == 5       \* requests started in a behaviour of ETA updates
MaxClientOps == 3    \* requests started in a behaviour with reading callers
MaxAlertOps == 4     \* requests started in a behaviour of alert evaluations
MaxEmailOps == 7     \* requests and tasks started in a behaviour of e-mail sends
MaxShipments == 1    \* rows of the shipments table
FirstDay == 10       \* date.today() in the first state
MaxCreateOps == 4    \* requests started in a behaviour of creations
MaxCreated == 2      \* rows of the shipments table in a behaviour of creations
MaxBatchOps == 4     \* requests and tasks started in a behaviour of batch runs
MaxBatched == 3      \* rows of the shipments table in a behaviour of batch runs
BatchSize == 2       \* shipments of a batch (batch_size, 100 in the task)
MaxWindowOps == 4    \* requests and tasks started in a behaviour of the ETA window
MaxWindowed == 2     \* rows of the shipments table in a behaviour of the ETA window
MaxSweepOps == 2     \* requests started in a behaviour of recurring sweeps
MaxQueued == 1       \* messages in the broker when a sweep adds its messages
MaxRetryCount == 3   \* retry count up to which the transport fails
MaxSweepAlerts == 1  \* alerts in a behaviour of recurring sweeps

\* ------------------------------------------------------- program constants
EtaEditLimit == 3
WarningDay == 4        \* ALERT_THRESHOLDS["warning"]
CriticalDay == 5       \* ALERT_THRESHOLDS["critical"]
UrgentDay == 7         \* ALERT_THRESHOLDS["urgent"]
EscalationDay == 6     \* the day the APR is added to the recipients
max_retries == 3       \* of the task send_alert_email
EmailRetryLimit == 3   \* the retry count below which a failed send is retried
EtaRangeDays == 30     \* the days before today of the ETAs a batch run evaluates

Procs == {"w1", "w2"}
EtaChoices == {3, 6}
\* ETAs from 3 to 7 days before the first day
AlertEtaChoices == {FirstDay - d : d \in 3..7}
ShipmentNumbers == {"SHP-1"}
CreateNumbers == {"SHP-1", "SHP-2"}
\* ETAs before, inside and after the range of the batch evaluation
WindowEtas == {FirstDay - EtaRangeDays - 1, FirstDay - WarningDay, FirstDay + 1}
Principals == {"p2", "p3"}

None == <<>>
Some(x) == <<x>>
IsNone(o) == o = <<>>
Val(o) == o[1]

\* The catalog rows of workflow_step_templates (a part of the 34 rows of
\* WORKFLOW_STEP_TEMPLATES, in display order, one of them deactivated).
WorkflowStepTemplates ==
  << [step_number |-> 5,  department |-> "Finance", offset_days |-> -1,
      is_critical |-> FALSE, is_active |-> TRUE],
     [step_number |-> 9,  department |-> "C&C",     offset_days |-> 0,
      is_critical |-> TRUE,  is_active |-> TRUE],
     [step_number |-> 12, department |-> "Finance", offset_days |-> 4,
      is_critical |-> FALSE, is_active |-> FALSE] >>

\* WorkflowStepTemplateRepository.get_all_active
get_all_active == SelectSeq(WorkflowStepTemplates, LAMBDA t : t.is_active)

\* The users table when a shipment is created: the ids of the users that have
\* logged in.  Users 3 and 4 are the PPR and APR of C&C, 5 and 6 of Finance.
UserDirectory == {2, 3, 4}
Directories == {{2, 3, 4}, {2, 3}}

\* WorkflowService._get_user_assignments: the users found by e-mail for each
\* department; a missing PPR falls back to user 1, a missing APR to None.
get_user_assignments(users) ==
  [d \in {"Finance", "C&C"} |->
     IF d = "Finance"
     THEN [ppr_user_id |-> IF 5 \in users THEN 5 ELSE 1,
           apr_user_id |-> IF 6 \in users THEN Some(6) ELSE None]
     ELSE [ppr_user_id |-> IF 3 \in users THEN 3 ELSE 1,
           apr_user_id |-> IF 4 \in users THEN Some(4) ELSE None]]

\* The authenticated user of the shipment requests (get_current_user).
ActorOf(w) == 2

VARIABLES
  today,       \* date.today()
  now,         \* datetime.now()
  wiring,      \* "api": ShipmentService(db); "full": with audit and workflow services
  shipments,   \* table shipments
  steps,       \* table workflow_steps
  audit_logs,  \* table audit_logs
  alerts,      \* table alerts
  queue,       \* bag of the send_alert_email messages in the broker
  pc,          \* position of each worker in its handler
  req,         \* the request a worker is handling
  obj,         \* the ORM object the worker loaded and modified
  pend,        \* audit records or alerts the handler still has to write
  result,      \* outcome of the last request of the worker
  att,         \* the last conditional write of the worker
  view,        \* version the worker's caller saw in its last GET
  opsStarted,  \* number of requests started
  etaCommits,  \* per shipment, number of committed ETA writes
  run          \* the batch evaluation run of each worker

vars == <<today, now, wiring, shipments, steps, audit_logs, alerts, queue, pc, req, obj,
          pend, result, att, view, opsStarted, etaCommits, run>>

NoReq == [op |-> "none", sid |-> 0, new_eta |-> 0, step_id |-> 0, actual_date |-> 0,
          alert_id |-> 0, retries |-> 0]
NoView == [sid |-> 0, version |-> 0]
NoAtt == [sid |-> 0, v |-> 0, res |-> "none", newv |-> 0, seen |-> 0]
\* A run of evaluate_alerts_task: the shipments its query returned, those
\* still to evaluate, the number taken in the current batch, whether the
\* session's transaction is left failed by an error, and what the run has
\* done so far: the shipments evaluated, those whose evaluation raised an
\* error of its own, those that failed on the failed transaction, the alerts
\* created in the batch, the length of created_alerts in the evaluation that
\* is running, the counter total_alerts_created and the number of alerts
\* the run has stored.
NoRun == [candidates |-> <<>>, todo |-> <<>>, taken |-> 0, failed_transaction |-> FALSE,
          evaluated |-> {}, raised |-> {}, skipped |-> {}, created |-> {},
          created_alerts |-> 0, total_alerts_created |-> 0, stored |-> 0]

Init ==
  /\ today = FirstDay
  /\ now = 0
  /\ wiring \in {"api", "full"}
  /\ shipments = <<>>
  /\ steps = <<>>
  /\ audit_logs = <<>>
  /\ alerts = <<>>
  /\ queue = EmptyBag
  /\ pc = [w \in Procs |-> "idle"]
  /\ req = [w \in Procs |-> NoReq]
  /\ obj = [w \in Procs |-> None]
  /\ pend = [w \in Procs |-> <<>>]
  /\ result = [w \in Procs |-> "none"]
  /\ att = [w \in Procs |-> NoAtt]
  /\ view = [w \in Procs |-> NoView]
  /\ opsStarted = 0
  /\ etaCommits = <<>>
  /\ run = [w \in Procs |-> NoRun]

\* AuditService.log_change builds one row
AuditRow(etype, eid, field, old, new, user) ==
  [entity_type |-> etype, entity_id |-> eid, field_name |-> field,
   old_value |-> old, new_value |-> new, user_id |-> user]

\* WorkflowService.generate_workflow_steps, line 77: the target date of a step
target_date_at_eta(eta, t) == eta

target_date_of(eta, t) == eta + t.offset_days

\* WorkflowService.generate_workflow_steps: one step per active template
generate_workflow_steps(sid, eta, users) ==
  LET templates == get_all_active
  IN [i \in 1..Len(templates) |->
        LET t == templates[i]
            ua == get_user_assignments(users)[t.department]
        IN [shipment_id |-> sid,
            step_number |-> t.step_number,
            department |-> t.department,
            target_date |-> target_date_of(eta, t),
            offset_days |-> t.offset_days,
            actual_date |-> None,
            status |-> "pending",
            is_critical |-> t.is_critical,
            ppr_user_id |-> ua.ppr_user_id,
            apr_user_id |-> ua.apr_user_id]]

\* ShipmentRepository.get_by_id: the row, unless absent or soft-deleted
get_by_id_with_deleted(sid) ==
  IF sid \in 1..Len(shipments) THEN Some(shipments[sid]) ELSE None

get_by_id(sid) ==
  IF sid \in 1..Len(shipments) /\ IsNone(shipments[sid].deleted_at)
  THEN Some(shipments[sid]) ELSE None

Finish(w, r) ==
  /\ pc' = [pc EXCEPT ![w] = "idle"]
  /\ req' = [req EXCEPT ![w] = NoReq]
  /\ result' = [result EXCEPT ![w] = r]
  /\ obj' = [obj EXCEPT ![w] = None]
  /\ pend' = [pend EXCEPT ![w] = <<>>]

\* The unique index on shipments.shipment_number: the flush of the INSERT
\* raises IntegrityError when a row, deleted or not, has the number.
number_exists_active(num) ==
  \E i \in 1..Len(shipments) :
     shipments[i].shipment_number = num /\ IsNone(shipments[i].deleted_at)

number_exists(num) ==
  \E i \in 1..Len(shipments) : shipments[i].shipment_number = num

\* ShipmentService.create_shipment up to the commit of the shipment and its
\* steps, in a shipments table of at most capacity rows.  The INSERT of the
\* flush waits for a concurrent INSERT of the same number to commit, so the
\* flush and the first commit are one step.
create_shipment(w, num, eta, users, budget, capacity) ==
  /\ pc[w] = "idle"
  /\ opsStarted < budget
  /\ opsStarted' = opsStarted + 1
  /\ att' = [att EXCEPT ![w] = NoAtt]
  /\ UNCHANGED <<today, now, wiring, run, audit_logs, alerts, queue, view>>
  /\ IF number_exists(num)
     THEN /\ Finish(w, "DuplicateKey")
          /\ UNCHANGED <<shipments, steps, etaCommits>>
     ELSE /\ Len(shipments) < capacity
          /\ LET sid == Len(shipments) + 1
                 row == [shipment_number |-> num, principal |-> "p1", eta |-> eta,
                         eta_edit_count |-> 0, status |-> "active", version |-> 1,
                         deleted_at |-> None]
             IN /\ shipments' = Append(shipments, row)
                /\ etaCommits' = Append(etaCommits, 0)
                /\ steps' = IF wiring = "full"
                            THEN steps \o generate_workflow_steps(sid, eta, users)
                            ELSE steps
                /\ IF wiring = "full"
                   THEN /\ pc' = [pc EXCEPT ![w] = "audit"]
                        /\ req' = [req EXCEPT ![w] = [NoReq EXCEPT !.op = "create", !.sid = sid]]
                        /\ pend' = [pend EXCEPT ![w] =
                             << AuditRow("shipment", sid, "created", None, Some(num), ActorOf(w)) >>]
                        /\ result' = [result EXCEPT ![w] = "none"]
                        /\ obj' = [obj EXCEPT ![w] = Some(row)]
                   ELSE Finish(w, "ok")

CreateShipment(w, num, eta, users, budget) ==
  create_shipment(w, num, eta, users, budget, MaxShipments)

\* One AuditService.log_change of a handler: AuditRepository.create commits the row
WriteAudit(w) ==
  /\ pc[w] = "audit"
  /\ pend[w] # <<>>
  /\ audit_logs' = Append(audit_logs, Head(pend[w]))
  /\ IF Len(pend[w]) = 1
     THEN Finish(w, IF req[w].op = "delete" THEN "true" ELSE "ok")
     ELSE /\ pend' = [pend EXCEPT ![w] = Tail(pend[w])]
          /\ UNCHANGED <<pc, req, result, obj>>
  /\ UNCHANGED <<today, now, wiring, run, shipments, steps, alerts, queue, att, view,
                 opsStarted, etaCommits>>


\* ShipmentRepository.update: UPDATE shipments SET <every column of the object>
\* WHERE id = :id AND version = :loaded_version.  The number of rows it matches.
rows_updated_unconditional(sid, o) ==
  IF sid \in 1..Len(shipments) THEN 1 ELSE 0

rows_updated(sid, o) ==
  IF sid \in 1..Len(shipments) /\ shipments[sid].version = o.version THEN 1 ELSE 0

\* The row ShipmentRepository.update writes: the object with version + 1
updated_row_same_version(o) == o

updated_row(o) == [o EXCEPT !.version = o.version + 1]

\* The attempt a handler records when it loads the shipment it is going to write
Loaded(w, sid, row) ==
  [sid |-> sid, v |-> row.version, res |-> "pending", newv |-> 0,
   seen |-> IF view[w].sid = sid THEN view[w].version ELSE 0]

\* ShipmentService.get_shipment: the caller reads the shipment; view[w] is the
\* version of the row it read
GetShipment(w, sid) ==
  /\ pc[w] = "idle"
  /\ ~IsNone(get_by_id(sid))
  /\ view[w] # [sid |-> sid, version |-> shipments[sid].version]
  /\ view' = [view EXCEPT ![w] = [sid |-> sid, version |-> shipments[sid].version]]
  /\ UNCHANGED <<today, now, wiring, run, shipments, steps, audit_logs, alerts, queue, pc, req, obj,
                 pend, result, att, opsStarted, etaCommits>>

Begin(w, budget) ==
  /\ pc[w] = "idle"
  /\ opsStarted < budget
  /\ opsStarted' = opsStarted + 1
  /\ view' = [view EXCEPT ![w] = NoView]

\* The fields of a ShipmentUpdate: None is "not provided"
UpdatePayloads ==
  { [principal |-> Some(p), status |-> None] : p \in Principals }
    \cup { [principal |-> None, status |-> Some("completed")] }
    \cup { [principal |-> None, status |-> None] }

\* The payloads of the behaviours that only need a version bump
PlainPayloads == { [principal |-> None, status |-> None] }

\* ShipmentService.update_shipment, lines 144-171: load, apply the provided fields
changes_of(row, data, actor, sid) ==
  (IF ~IsNone(data.principal) /\ Val(data.principal) # row.principal
   THEN << AuditRow("shipment", sid, "principal", Some(row.principal), data.principal, actor) >>
   ELSE <<>>)
  \o
  (IF ~IsNone(data.status) /\ Val(data.status) # row.status
   THEN << AuditRow("shipment", sid, "status", Some(row.status), data.status, actor) >>
   ELSE <<>>)

apply_update(row, data) ==
  [row EXCEPT !.principal = IF ~IsNone(data.principal) THEN Val(data.principal) ELSE @,
              !.status = IF ~IsNone(data.status) THEN Val(data.status) ELSE @]

StartUpdate(w, sid, data, budget) ==
  /\ Begin(w, budget)
  /\ UNCHANGED <<today, now, wiring, run, shipments, steps, audit_logs, alerts, queue, etaCommits>>
  /\ LET found == get_by_id(sid)
     IN IF IsNone(found)
        THEN /\ Finish(w, "NotFound")
             /\ att' = [att EXCEPT ![w] = NoAtt]
        ELSE /\ obj' = [obj EXCEPT ![w] = Some(apply_update(Val(found), data))]
             /\ pend' = [pend EXCEPT ![w] = changes_of(Val(found), data, ActorOf(w), sid)]
             /\ att' = [att EXCEPT ![w] = Loaded(w, sid, Val(found))]
             /\ req' = [req EXCEPT ![w] = [NoReq EXCEPT !.op = "update", !.sid = sid]]
             /\ pc' = [pc EXCEPT ![w] = "write"]
             /\ result' = [result EXCEPT ![w] = "none"]

\* ShipmentService.update_eta, lines 215-234: load, check the edit limit, set the ETA
edit_limit_off_by_one(row) == row.eta_edit_count > EtaEditLimit

edit_limit_never(row) == FALSE

edit_limit_reached(row) == row.eta_edit_count >= EtaEditLimit

StartUpdateEta(w, sid, new_eta, budget) ==
  /\ Begin(w, budget)
  /\ UNCHANGED <<today, now, wiring, run, shipments, steps, audit_logs, alerts, queue, etaCommits>>
  /\ LET found == get_by_id(sid)
     IN IF IsNone(found)
        THEN /\ Finish(w, "NotFound")
             /\ att' = [att EXCEPT ![w] = NoAtt]
        ELSE IF edit_limit_reached(Val(found))
        THEN /\ Finish(w, "EditLimitExceeded")
             /\ att' = [att EXCEPT ![w] = NoAtt]
        ELSE LET row == Val(found)
                 new == [row EXCEPT !.eta = new_eta, !.eta_edit_count = @ + 1]
             IN /\ obj' = [obj EXCEPT ![w] = Some(new)]
                /\ pend' = [pend EXCEPT ![w] =
                     IF wiring = "full"
                     THEN << AuditRow("shipment", sid, "eta", Some(row.eta), Some(new_eta), ActorOf(w)),
                             AuditRow("shipment", sid, "eta_edit_count",
                                      Some(new.eta_edit_count - 1), Some(new.eta_edit_count), ActorOf(w)) >>
                     ELSE <<>>]
                /\ att' = [att EXCEPT ![w] = Loaded(w, sid, row)]
                /\ req' = [req EXCEPT ![w] =
                     [NoReq EXCEPT !.op = "update_eta", !.sid = sid, !.new_eta = new_eta]]
                /\ pc' = [pc EXCEPT ![w] = "write"]
                /\ result' = [result EXCEPT ![w] = "none"]

\* ShipmentService.delete_shipment, lines 365-372: load, set deleted_at and status
StartDelete(w, sid, budget) ==
  /\ Begin(w, budget)
  /\ UNCHANGED <<today, now, wiring, run, shipments, steps, audit_logs, alerts, queue, etaCommits>>
  /\ LET found == get_by_id(sid)
     IN IF IsNone(found)
        THEN /\ Finish(w, "false")
             /\ att' = [att EXCEPT ![w] = NoAtt]
        ELSE LET row == Val(found)
                 new == [row EXCEPT !.deleted_at = Some(today), !.status = "cancelled"]
             IN /\ obj' = [obj EXCEPT ![w] = Some(new)]
                /\ pend' = [pend EXCEPT ![w] =
                     << AuditRow("shipment", sid, "deleted_at", None, Some(today), ActorOf(w)) >>]
                /\ att' = [att EXCEPT ![w] = Loaded(w, sid, row)]
                /\ req' = [req EXCEPT ![w] = [NoReq EXCEPT !.op = "delete", !.sid = sid]]
                /\ pc' = [pc EXCEPT ![w] = "write"]
                /\ result' = [result EXCEPT ![w] = "none"]

\* ShipmentRepository.update, lines 74-80: the stored row after the rollback
\* of a write that matched no row; the changes of the object are dropped
rolled_back_partial(sid, o) ==
  [shipments[sid] EXCEPT !.eta = o.eta, !.eta_edit_count = o.eta_edit_count,
                         !.principal = o.principal, !.status = o.status]

rolled_back(sid, o) == shipments[sid]

\* ShipmentRepository.update called by the three handlers: the conditional write
\* and its commit, or the rollback and ConcurrentModificationError
RepoUpdate(w) ==
  /\ pc[w] = "write"
  /\ LET sid == req[w].sid
         o == Val(obj[w])
     IN IF rows_updated(sid, o) = 0
        THEN /\ Finish(w, "ConcurrentModification")
             /\ att' = [att EXCEPT ![w].res = "conflict"]
             /\ shipments' = [shipments EXCEPT ![sid] = rolled_back(sid, o)]
             /\ UNCHANGED etaCommits
        ELSE /\ shipments' = [shipments EXCEPT ![sid] = updated_row(o)]
             /\ att' = [att EXCEPT ![w].res = "ok", ![w].newv = updated_row(o).version]
             /\ etaCommits' = IF req[w].op = "update_eta"
                              THEN [etaCommits EXCEPT ![sid] = @ + 1] ELSE etaCommits
             /\ IF req[w].op = "update_eta"
                THEN /\ pc' = [pc EXCEPT ![w] = "recalc"]
                     /\ UNCHANGED <<req, result, obj, pend>>
                ELSE IF wiring = "full" /\ pend[w] # <<>>
                THEN /\ pc' = [pc EXCEPT ![w] = "audit"]
                     /\ UNCHANGED <<req, result, obj, pend>>
                ELSE Finish(w, IF req[w].op = "delete" THEN "true" ELSE "ok")
  /\ UNCHANGED <<today, now, wiring, run, steps, audit_logs, alerts, queue, view, opsStarted>>

\* WorkflowRepository.update_target_dates_bulk: the target date of every step of
\* the shipment, from the new ETA and the step's own offset
recalculated_regenerated(step, new_eta) ==
  [step EXCEPT !.target_date = new_eta + step.offset_days,
               !.actual_date = None, !.status = "pending"]

recalculated(step, new_eta) == [step EXCEPT !.target_date = new_eta + step.offset_days]

update_target_dates_bulk(w) ==
  /\ pc[w] = "recalc"
  /\ steps' = [i \in 1..Len(steps) |->
                 IF steps[i].shipment_id = req[w].sid
                 THEN recalculated(steps[i], req[w].new_eta) ELSE steps[i]]
  /\ IF pend[w] # <<>>
     THEN /\ pc' = [pc EXCEPT ![w] = "audit"]
          /\ UNCHANGED <<req, result, obj, pend>>
     ELSE Finish(w, "ok")
  /\ UNCHANGED <<today, now, wiring, run, shipments, audit_logs, alerts, queue, att, view,
                 opsStarted, etaCommits>>

\* WorkflowRepository.get_by_id: the step row, or None
get_step(step_id) == IF step_id \in 1..Len(steps) THEN Some(steps[step_id]) ELSE None

\* WorkflowService.complete_step, lines 151-174: who may complete, and when
may_complete_anyone(step, user) == TRUE

may_complete(step, user) == Some(user) = Some(step.ppr_user_id) \/ Some(user) = step.apr_user_id

in_future_or_today(actual_date) == actual_date >= today

in_future(actual_date) == actual_date > today

StartCompleteStep(w, step_id, actual_date, user, budget) ==
  /\ Begin(w, budget)
  /\ att' = [att EXCEPT ![w] = NoAtt]
  /\ UNCHANGED <<today, now, wiring, run, shipments, steps, audit_logs, alerts, queue, etaCommits>>
  /\ LET found == get_step(step_id)
     IN IF IsNone(found)
        THEN Finish(w, "NotFound")
        ELSE IF ~may_complete(Val(found), user)
        THEN Finish(w, "Forbidden")
        ELSE IF in_future(actual_date)
        THEN Finish(w, "ValidationError")
        ELSE LET step == Val(found)
             IN /\ obj' = [obj EXCEPT ![w] = found]
                /\ req' = [req EXCEPT ![w] = [NoReq EXCEPT !.op = "complete",
                             !.sid = step.shipment_id, !.step_id = step_id,
                             !.actual_date = actual_date]]
                /\ pend' = [pend EXCEPT ![w] =
                     IF wiring = "full"
                     THEN << AuditRow("workflow_step", step_id, "actual_date",
                                      step.actual_date, Some(actual_date), user),
                             AuditRow("workflow_step", step_id, "status",
                                      Some(step.status), Some("completed"), user) >>
                     ELSE <<>>]
                /\ pc' = [pc EXCEPT ![w] = "step_write"]
                /\ result' = [result EXCEPT ![w] = "none"]

\* WorkflowRepository.update: the commit flushes the attributes of the loaded
\* step whose value the handler changed, and no other column
completed_whole_row(row, loaded, actual_date) ==
  [loaded EXCEPT !.actual_date = Some(actual_date), !.status = "completed"]

completed_date_only(row, loaded, actual_date) ==
  [row EXCEPT !.actual_date = IF loaded.actual_date # Some(actual_date)
                              THEN Some(actual_date) ELSE @]

completed(row, loaded, actual_date) ==
  [row EXCEPT !.actual_date = IF loaded.actual_date # Some(actual_date)
                              THEN Some(actual_date) ELSE @,
              !.status = IF loaded.status # "completed" THEN "completed" ELSE @]

StepUpdate(w) ==
  /\ pc[w] = "step_write"
  /\ steps' = [steps EXCEPT ![req[w].step_id] =
                 completed(@, Val(obj[w]), req[w].actual_date)]
  /\ IF pend[w] # <<>>
     THEN /\ pc' = [pc EXCEPT ![w] = "audit"]
          /\ UNCHANGED <<req, result, obj, pend>>
     ELSE Finish(w, "ok")
  /\ UNCHANGED <<today, now, wiring, run, shipments, audit_logs, alerts, queue, att, view,
                 opsStarted, etaCommits>>

\* ------------------------------------------------------- alert evaluation

\* AlertService._determine_severity
determine_severity_strict(days_post_eta) ==
  IF days_post_eta > UrgentDay THEN "urgent"
  ELSE IF days_post_eta > CriticalDay THEN "critical"
  ELSE "warning"

determine_severity(days_post_eta) ==
  IF days_post_eta >= UrgentDay THEN "urgent"
  ELSE IF days_post_eta >= CriticalDay THEN "critical"
  ELSE "warning"

\* AlertService._determine_recipients: the PPR, and from day 6 the APR if any
determine_recipients_late(step, days_post_eta) ==
  IF days_post_eta > EscalationDay /\ ~IsNone(step.apr_user_id)
  THEN << step.ppr_user_id, Val(step.apr_user_id) >>
  ELSE << step.ppr_user_id >>

determine_recipients(step, days_post_eta) ==
  IF days_post_eta >= EscalationDay /\ ~IsNone(step.apr_user_id)
  THEN << step.ppr_user_id, Val(step.apr_user_id) >>
  ELSE << step.ppr_user_id >>

\* WorkflowService.get_critical_incomplete_steps: ids of the steps, in order
get_critical_steps_any_status(sid) ==
  SelectSeq([i \in 1..Len(steps) |-> i],
            LAMBDA i : steps[i].shipment_id = sid /\ steps[i].is_critical)

get_critical_incomplete_steps(sid) ==
  SelectSeq([i \in 1..Len(steps) |-> i],
            LAMBDA i : /\ steps[i].shipment_id = sid
                       /\ steps[i].is_critical
                       /\ steps[i].status # "completed")

RECURSIVE candidates(_, _)
\* The (step, recipient) pairs the loops of evaluate_shipment_alerts visit
candidates(ids, days_post_eta) ==
  IF ids = <<>> THEN <<>>
  ELSE LET rs == determine_recipients(steps[Head(ids)], days_post_eta)
       IN [k \in 1..Len(rs) |->
             [workflow_step_id |-> Head(ids), recipient_user_id |-> rs[k],
              severity |-> determine_severity(days_post_eta),
              days_post_eta |-> days_post_eta]]
          \o candidates(Tail(ids), days_post_eta)

\* The duplicate check of evaluate_shipment_alerts over AlertRepository.get_by_shipment
alert_exists(sid, c) ==
  \E a \in 1..Len(alerts) :
    /\ alerts[a].shipment_id = sid
    /\ alerts[a].workflow_step_id = c.workflow_step_id
    /\ alerts[a].recipient_user_id = c.recipient_user_id
    /\ alerts[a].days_post_eta = c.days_post_eta
    /\ ~alerts[a].is_acknowledged

\* AlertService.create_alert builds the row
new_alert(sid, c) ==
  [shipment_id |-> sid, workflow_step_id |-> c.workflow_step_id,
   recipient_user_id |-> c.recipient_user_id, severity |-> c.severity,
   days_post_eta |-> c.days_post_eta, is_acknowledged |-> FALSE,
   acknowledged_at |-> None, email_sent |-> FALSE, email_sent_at |-> None,
   email_retry_count |-> 0]

\* A message of the task send_alert_email
EmailTask(alert_id, retries) == [alert_id |-> alert_id, retries |-> retries]

\* evaluate_single_shipment_alerts up to the list of critical incomplete steps
StartEvaluate(w, sid, budget) ==
  /\ Begin(w, budget)
  /\ att' = [att EXCEPT ![w] = NoAtt]
  /\ UNCHANGED <<today, now, wiring, run, shipments, steps, audit_logs, alerts, queue, etaCommits>>
  /\ LET found == get_by_id(sid)
     IN IF IsNone(found)
        THEN Finish(w, "not_found")
        ELSE LET days_post_eta == today - Val(found).eta
                 work == candidates(get_critical_incomplete_steps(sid), days_post_eta)
             IN IF days_post_eta < WarningDay \/ work = <<>>
                THEN Finish(w, "completed")
                ELSE /\ obj' = [obj EXCEPT ![w] = found]
                     /\ req' = [req EXCEPT ![w] =
                                  [NoReq EXCEPT !.op = "evaluate", !.sid = sid]]
                     /\ pend' = [pend EXCEPT ![w] = work]
                     /\ pc' = [pc EXCEPT ![w] = "eval_check"]
                     /\ result' = [result EXCEPT ![w] = "none"]

\* The run after the evaluation of the shipment at the head of its list has
\* ended with the given outcome, having created the given alerts
run_after(w, outcome, created, failed) ==
  LET r == run[w]
      sid == Head(r.todo)
  IN [r EXCEPT !.todo = Tail(r.todo),
               !.taken = r.taken + 1,
               !.failed_transaction = failed,
               !.evaluated = IF outcome = "evaluated" THEN @ \cup {sid} ELSE @,
               !.raised = IF outcome = "raised" THEN @ \cup {sid} ELSE @,
               !.skipped = IF outcome = "skipped" THEN @ \cup {sid} ELSE @,
               !.created = @ \cup created,
               !.created_alerts = 0,
               !.total_alerts_created =
                  IF outcome = "evaluated"
                  THEN @ + r.created_alerts + Cardinality(created) ELSE @,
               !.stored = @ + Cardinality(created)]

\* The handler moves to the next (step, recipient) pair, or returns: to the
\* task of one shipment, or to the loop of evaluate_alerts_task
NextCandidate(w, created) ==
  IF Len(pend[w]) > 1
  THEN /\ pend' = [pend EXCEPT ![w] = Tail(@)]
       /\ pc' = [pc EXCEPT ![w] = "eval_check"]
       /\ run' = [run EXCEPT ![w].created = @ \cup created,
                             ![w].created_alerts = @ + Cardinality(created),
                             ![w].stored = @ + Cardinality(created)]
       /\ UNCHANGED <<req, result, obj>>
  ELSE IF req[w].op = "batch"
  THEN /\ run' = [run EXCEPT ![w] = run_after(w, "evaluated", created, FALSE)]
       /\ pc' = [pc EXCEPT ![w] = "batch"]
       /\ req' = [req EXCEPT ![w] = [NoReq EXCEPT !.op = "batch"]]
       /\ pend' = [pend EXCEPT ![w] = <<>>]
       /\ UNCHANGED <<result, obj>>
  ELSE /\ Finish(w, "completed")
       /\ UNCHANGED run

\* An exception leaves evaluate_shipment_alerts.  evaluate_alerts_task logs it
\* and continues with the next shipment without a rollback (lines 88-95), so
\* the session keeps a transaction that a database error has left failed;
\* evaluate_single_shipment_alerts rolls back and returns "failed".
Raise(w, failed) ==
  IF req[w].op = "batch"
  THEN /\ run' = [run EXCEPT ![w] = run_after(w, "raised", {}, failed)]
       /\ pc' = [pc EXCEPT ![w] = "batch"]
       /\ req' = [req EXCEPT ![w] = [NoReq EXCEPT !.op = "batch"]]
       /\ pend' = [pend EXCEPT ![w] = <<>>]
       /\ UNCHANGED <<result, obj>>
  ELSE /\ Finish(w, "failed")
       /\ UNCHANGED run

\* The query for an existing alert of the pair
EvalCheck(w) ==
  /\ pc[w] = "eval_check"
  /\ IF alert_exists(req[w].sid, Head(pend[w]))
     THEN NextCandidate(w, {})
     ELSE /\ pc' = [pc EXCEPT ![w] = "eval_create"]
          /\ UNCHANGED <<req, result, obj, pend, run>>
  /\ UNCHANGED <<today, now, wiring, shipments, steps, audit_logs, alerts, queue, att,
                 view, opsStarted, etaCommits>>

\* AlertService.queue_email_notification, lines 234-239: whether a failure of
\* send_alert_email.delay leaves the method as an exception
enqueue_raises_on_failure(enqueued) == ~enqueued

enqueue_raises(enqueued) == FALSE

\* AlertRepository.create commits the alert; queue_email_notification hands
\* it to the broker, which takes the message or fails
create_and_queue(w, enqueued) ==
  /\ pc[w] = "eval_create"
  /\ alerts' = Append(alerts, new_alert(req[w].sid, Head(pend[w])))
  /\ queue' = IF enqueued
              THEN queue (+) SetToBag({EmailTask(Len(alerts) + 1, 0)})
              ELSE queue
  /\ IF enqueue_raises(enqueued)
     THEN Raise(w, FALSE)
     ELSE NextCandidate(w, {Len(alerts) + 1})
  /\ UNCHANGED <<today, now, wiring, shipments, steps, audit_logs, att, view,
                 opsStarted, etaCommits>>

EvalCreate(w) == create_and_queue(w, TRUE)

\* A statement of the evaluation fails with a database error: a query, or the
\* commit of AlertRepository.create, which rolls the session back itself
EvalRaise(w, failed) ==
  /\ pc[w] \in {"eval_check", "eval_create"}
  /\ failed => pc[w] = "eval_check"
  /\ Raise(w, failed)
  /\ UNCHANGED <<today, now, wiring, shipments, steps, audit_logs, alerts, queue, att,
                 view, opsStarted, etaCommits>>

\* The filter of ShipmentRepository.get_active_shipments_by_eta_range, called
\* with the range from today - 30 to today
in_range_any_eta(row) ==
  /\ row.status = "active"
  /\ IsNone(row.deleted_at)

in_range(row) ==
  /\ row.status = "active"
  /\ IsNone(row.deleted_at)
  /\ row.eta >= today - EtaRangeDays
  /\ row.eta <= today

RECURSIVE ids_from(_)
\* The ids from i on of the shipments the query returns
ids_from(i) ==
  IF i > Len(shipments) THEN <<>>
  ELSE (IF in_range(shipments[i]) THEN <<i>> ELSE <<>>) \o ids_from(i + 1)

get_active_shipments_by_eta_range == ids_from(1)

\* evaluate_alerts_task, lines 33-58: the task loads the shipments to evaluate
StartBatchRun(w, budget) ==
  /\ Begin(w, budget)
  /\ att' = [att EXCEPT ![w] = NoAtt]
  /\ UNCHANGED <<today, now, wiring, shipments, steps, audit_logs, alerts, queue, etaCommits>>
  /\ IF get_active_shipments_by_eta_range = <<>>
     THEN /\ Finish(w, "completed")
          /\ run' = [run EXCEPT ![w] = NoRun]
     ELSE /\ run' = [run EXCEPT ![w] =
                       [NoRun EXCEPT !.candidates = get_active_shipments_by_eta_range,
                                     !.todo = get_active_shipments_by_eta_range]]
          /\ pc' = [pc EXCEPT ![w] = "batch"]
          /\ req' = [req EXCEPT ![w] = [NoReq EXCEPT !.op = "batch"]]
          /\ result' = [result EXCEPT ![w] = "none"]
          /\ UNCHANGED <<obj, pend>>

\* evaluate_alerts_task, lines 110-121: the summary of a run
summary(r) ==
  [total_shipments |-> Len(r.candidates),
   processed |-> Cardinality(r.evaluated),
   errors |-> Cardinality(r.raised \cup r.skipped),
   alerts_created |-> r.total_alerts_created]

\* evaluate_alerts_task, lines 65-100: one turn of the loops.  At the end of a
\* batch db.commit() ends the transaction of the session, failed or not; it
\* has nothing to write, every alert being committed when it was created.
\* Otherwise the next shipment is evaluated up to its first alert: on a
\* failed transaction its first statement raises.
BatchStep(w) ==
  /\ pc[w] = "batch"
  /\ UNCHANGED <<today, now, wiring, shipments, steps, audit_logs, alerts, queue, att,
                 view, opsStarted, etaCommits>>
  /\ LET r == run[w]
     IN IF r.taken = BatchSize \/ r.todo = <<>>
        THEN IF r.todo = <<>>
             THEN /\ Finish(w, "completed")
                  /\ run' = [run EXCEPT ![w] = NoRun]
             ELSE /\ run' = [run EXCEPT ![w] =
                               [r EXCEPT !.taken = 0, !.failed_transaction = FALSE,
                                         !.created = {}]]
                  /\ UNCHANGED <<pc, req, result, obj, pend>>
        ELSE LET sid == Head(r.todo)
                 days_post_eta == today - shipments[sid].eta
                 work == candidates(get_critical_incomplete_steps(sid), days_post_eta)
             IN IF r.failed_transaction
                THEN /\ run' = [run EXCEPT ![w] = run_after(w, "skipped", {}, TRUE)]
                     /\ UNCHANGED <<pc, req, result, obj, pend>>
                ELSE IF days_post_eta < WarningDay \/ work = <<>>
                THEN /\ run' = [run EXCEPT ![w] = run_after(w, "evaluated", {}, FALSE)]
                     /\ UNCHANGED <<pc, req, result, obj, pend>>
                ELSE /\ req' = [req EXCEPT ![w] =
                                  [NoReq EXCEPT !.op = "batch", !.sid = sid]]
                     /\ pend' = [pend EXCEPT ![w] = work]
                     /\ pc' = [pc EXCEPT ![w] = "eval_check"]
                     /\ UNCHANGED <<result, obj, run>>

\* AlertService.acknowledge_alert: only the recipient may acknowledge
is_recipient_anyone(alert, user) == TRUE

is_recipient(alert, user) == user = alert.recipient_user_id

\* The columns acknowledge_alert assigns
acknowledged(row, at) ==
  [row EXCEPT !.is_acknowledged = TRUE, !.acknowledged_at = Some(at)]

\* AlertService.acknowledge_alert, called when the clock shows `at`
AcknowledgeAlert(w, alert_id, user, at, budget) ==
  /\ Begin(w, budget)
  /\ att' = [att EXCEPT ![w] = NoAtt]
  /\ now' = at
  /\ IF alert_id \notin 1..Len(alerts)
     THEN /\ Finish(w, "NotFound")
          /\ UNCHANGED alerts
     ELSE IF ~is_recipient(alerts[alert_id], user)
     THEN /\ Finish(w, "Forbidden")
          /\ UNCHANGED alerts
     ELSE /\ alerts' = [alerts EXCEPT ![alert_id] = acknowledged(@, at)]
          /\ Finish(w, "ok")
  /\ UNCHANGED <<today, wiring, run, shipments, steps, audit_logs, queue, etaCommits>>

\* ------------------------------------------------------- e-mail dispatch

\* AlertRepository.get_pending_notifications: ids of the alerts not yet sent
get_pending_notifications_below_limit ==
  {a \in 1..Len(alerts) :
     ~alerts[a].email_sent /\ alerts[a].email_retry_count < EmailRetryLimit}

get_pending_notifications == {a \in 1..Len(alerts) : ~alerts[a].email_sent}

\* process_email_notifications_task: one message per pending alert
process_email_notifications(w) ==
  /\ att' = [att EXCEPT ![w] = NoAtt]
  /\ queue' = queue (+) SetToBag({EmailTask(a, 0) : a \in get_pending_notifications})
  /\ Finish(w, "completed")
  /\ UNCHANGED <<today, now, wiring, run, shipments, steps, audit_logs, alerts, etaCommits>>

ProcessEmailNotifications(w, budget) ==
  /\ Begin(w, budget)
  /\ process_email_notifications(w)

\* A free worker takes a task of the beat schedule or of the queue; such
\* tasks recur for ever and are not counted as requests
Scheduled(w) ==
  /\ pc[w] = "idle"
  /\ view' = [view EXCEPT ![w] = NoView]
  /\ UNCHANGED opsStarted

\* The sweep of the beat schedule, every five minutes.  The broker holds at
\* most MaxQueued messages.
Sweep(w) ==
  /\ Scheduled(w)
  /\ BagCardinality(queue) < MaxQueued
  /\ process_email_notifications(w)

\* send_alert_email: the guard against a second delivery
already_sent_never(alert) == FALSE

already_sent(alert) == alert.email_sent

\* send_alert_email up to the call of send_email_smtp
send_alert_email(w, t) ==
  /\ BagIn(t, queue)
  /\ att' = [att EXCEPT ![w] = NoAtt]
  /\ queue' = queue (-) SetToBag({t})
  /\ UNCHANGED <<today, now, wiring, run, shipments, steps, audit_logs, alerts, etaCommits>>
  /\ IF t.alert_id \notin 1..Len(alerts)
     THEN Finish(w, "not_found")
     ELSE IF already_sent(alerts[t.alert_id])
     THEN Finish(w, "already_sent")
     ELSE /\ obj' = [obj EXCEPT ![w] = Some(alerts[t.alert_id])]
          /\ req' = [req EXCEPT ![w] = [NoReq EXCEPT !.op = "send_email",
                       !.alert_id = t.alert_id, !.retries = t.retries]]
          /\ pc' = [pc EXCEPT ![w] = "smtp"]
          /\ result' = [result EXCEPT ![w] = "none"]
          /\ UNCHANGED pend

StartSend(w, t, budget) ==
  /\ Begin(w, budget)
  /\ send_alert_email(w, t)

\* A worker takes a message of the queue
Deliver(w, t) ==
  /\ Scheduled(w)
  /\ send_alert_email(w, t)

\* The worker process is lost while it sends: the message is gone with it
Crash(w) ==
  /\ pc[w] = "smtp"
  /\ Finish(w, "lost")
  /\ UNCHANGED <<today, now, wiring, run, shipments, steps, audit_logs, alerts, queue, att,
                 view, opsStarted, etaCommits>>

\* Task.retry: a message for the next attempt, unless the attempts are used up
retry(t) ==
  IF t.retries < max_retries
  THEN SetToBag({EmailTask(t.alert_id, t.retries + 1)})
  ELSE EmptyBag

\* The retry count the failed send stores: the loaded count plus one
failed_count(loaded) == loaded.email_retry_count + 1

\* send_alert_email from the outcome of send_email_smtp to its return.  A
\* failed send below the limit raises Task.retry in the body, and the handler
\* of Exception calls Task.retry again.
SendResult(w, success) ==
  /\ pc[w] = "smtp"
  /\ LET id == req[w].alert_id
         t == EmailTask(id, req[w].retries)
     IN IF success
        THEN /\ alerts' = [alerts EXCEPT ![id].email_sent = TRUE,
                                         ![id].email_sent_at = Some(now)]
             /\ UNCHANGED queue
             /\ Finish(w, "sent")
        ELSE /\ alerts' = [alerts EXCEPT ![id].email_retry_count =
                                            failed_count(Val(obj[w]))]
             /\ IF failed_count(Val(obj[w])) < EmailRetryLimit
                THEN /\ queue' = queue (+) retry(t) (+) retry(t)
                     /\ Finish(w, IF t.retries < max_retries THEN "retry" ELSE "error")
                ELSE /\ UNCHANGED queue
                     /\ Finish(w, "failed")
  /\ UNCHANGED <<today, now, wiring, run, shipments, steps, audit_logs, att, view,
                 opsStarted, etaCommits>>

\* The transport fails at most until the retry count of an alert is MaxRetryCount
SendResultWithin(w, success) ==
  /\ pc[w] = "smtp"
  /\ success \/ failed_count(Val(obj[w])) <= MaxRetryCount
  /\ SendResult(w, success)

\* ------------------------------------------------------------ API errors

\* What ShipmentService raises for each failure outcome of a handler: the
\* class of the exception and the words its message carries.  A missing
\* shipment, a duplicate number and an exhausted edit limit are all ValueError.
raised(outcome) ==
  CASE outcome = "NotFound" -> [class |-> "ValueError", message |-> "not found"]
    [] outcome = "DuplicateKey" -> [class |-> "ValueError", message |-> "already exists"]
    [] outcome = "EditLimitExceeded" -> [class |-> "ValueError", message |-> "edit limit reached"]
    [] outcome = "ConcurrentModification" ->
         [class |-> "ConcurrentModificationError", message |-> "modified by another transaction"]
    [] OTHER -> [class |-> "none", message |-> ""]

\* api/v1/shipments.py: the except clauses of the endpoints create_shipment,
\* update_shipment and update_eta, in their order: the HTTP status and the
\* error code the caller receives for an exception of the service
error_response(endpoint, exc) ==
  IF exc.class = "none"
  THEN [status |-> 200, code |-> "OK"]
  ELSE IF endpoint = "create_shipment"
  THEN IF exc.class = "ValueError"
       THEN [status |-> 400, code |-> "VALIDATION_ERROR"]
       ELSE [status |-> 500, code |-> "INTERNAL_ERROR"]
  ELSE IF exc.class = "ConcurrentModificationError"
  THEN [status |-> 409, code |-> "CONCURRENT_MODIFICATION"]
  ELSE IF endpoint = "update_eta" /\ exc.message = "edit limit reached"
  THEN [status |-> 409, code |-> "ETA_EDIT_LIMIT_EXCEEDED"]
  ELSE [status |-> 400, code |-> "VALIDATION_ERROR"]

\* The requests and handler steps on shipments, each started within a budget
ShipmentRequests(budget, payloads) ==
  \/ \E w \in Procs, num \in ShipmentNumbers, eta \in EtaChoices :
       CreateShipment(w, num, eta, UserDirectory, budget)
  \/ \E w \in Procs, sid \in 1..MaxShipments, data \in payloads :
       StartUpdate(w, sid, data, budget)
  \/ \E w \in Procs, sid \in 1..MaxShipments, eta \in EtaChoices :
       StartUpdateEta(w, sid, eta, budget)
  \/ \E w \in Procs, sid \in 1..MaxShipments : StartDelete(w, sid, budget)

StepRequests(budget, users, dates) ==
  \E w \in Procs, step_id \in 1..(MaxShipments * Len(get_all_active)),
     d \in dates, u \in users :
       StartCompleteStep(w, step_id, d, u, budget)

HandlerSteps ==
  \/ \E w \in Procs : RepoUpdate(w)
  \/ \E w \in Procs : update_target_dates_bulk(w)
  \/ \E w \in Procs : WriteAudit(w)

EvaluationSteps(budget, etas, directories) ==
  \/ \E w \in Procs, num \in ShipmentNumbers, eta \in etas, users \in directories :
       CreateShipment(w, num, eta, users, budget)
  \/ \E w \in Procs : WriteAudit(w)
  \/ \E w \in Procs, sid \in 1..MaxShipments : StartEvaluate(w, sid, budget)
  \/ \E w \in Procs : EvalCheck(w)
  \/ \E w \in Procs : EvalCreate(w)

\* Requests of every kind
Next ==
  \/ ShipmentRequests(MaxOps, UpdatePayloads)
  \/ StepRequests(MaxOps, {2, 3}, {today - 1, today, today + 1})
  \/ \E w \in Procs : StepUpdate(w)
  \/ HandlerSteps

Spec == Init /\ [][Next]_vars

\* Longer behaviours: ETA updates, with the other writers of the shipment row
NextEta ==
  \/ ShipmentRequests(MaxEtaOps, PlainPayloads)
  \/ HandlerSteps

SpecEta == Init /\ [][NextEta]_vars

\* Callers that read the shipment before they submit a change
NextClient ==
  \/ \E w \in Procs, sid \in 1..MaxShipments : GetShipment(w, sid)
  \/ ShipmentRequests(MaxClientOps, UpdatePayloads)
  \/ HandlerSteps

SpecClient == Init /\ [][NextClient]_vars

\* Alert evaluations by two workers, step completions and acknowledgements
NextAlert ==
  \/ EvaluationSteps(MaxAlertOps, AlertEtaChoices, Directories)
  \/ \E w \in Procs, sid \in 1..MaxShipments : StartDelete(w, sid, MaxAlertOps)
  \/ \E w \in Procs : RepoUpdate(w)
  \/ StepRequests(MaxAlertOps, {3}, {today})
  \/ \E w \in Procs : StepUpdate(w)
  \/ \E w \in Procs, a \in 1..(Len(alerts) + 1), u \in {3, 4}, at \in {now, now + 1} :
       AcknowledgeAlert(w, a, u, at, MaxAlertOps)

SpecAlert == Init /\ [][NextAlert]_vars

\* Alert evaluations, the sweep of pending notifications and the send tasks
NextEmail ==
  \/ EvaluationSteps(MaxEmailOps, EtaChoices, {UserDirectory})
  \/ \E w \in Procs : ProcessEmailNotifications(w, MaxEmailOps)
  \/ \E w \in Procs, t \in BagToSet(queue) : StartSend(w, t, MaxEmailOps)
  \/ \E w \in Procs, success \in BOOLEAN : SendResult(w, success)

SpecEmail == Init /\ [][NextEmail]_vars

\* Creations of shipments under two numbers, and deletions
NextCreate ==
  \/ \E w \in Procs, num \in CreateNumbers, eta \in EtaChoices :
       create_shipment(w, num, eta, UserDirectory, MaxCreateOps, MaxCreated)
  \/ \E w \in Procs, sid \in 1..MaxCreated : StartDelete(w, sid, MaxCreateOps)
  \/ \E w \in Procs : RepoUpdate(w)
  \/ \E w \in Procs : WriteAudit(w)

SpecCreate == Init /\ [][NextCreate]_vars

\* The daily evaluation run over shipments six days past their ETA, with
\* database errors and a broker that may refuse a message.  The beat schedule
\* starts one run a day, so one worker runs the task while shipments are
\* created.
NextBatch ==
  \/ \E w \in Procs :
       create_shipment(w, "SHP-" \o ToString(Len(shipments) + 1), FirstDay - EscalationDay,
                       UserDirectory, MaxBatchOps, MaxBatched)
  \/ \E w \in Procs : WriteAudit(w)
  \/ \E w \in {"w1"} : StartBatchRun(w, MaxBatchOps)
  \/ \E w \in Procs : BatchStep(w)
  \/ \E w \in Procs : EvalCheck(w)
  \/ \E w \in Procs, enqueued \in BOOLEAN : create_and_queue(w, enqueued)
  \/ \E w \in Procs, failed \in BOOLEAN : EvalRaise(w, failed)

SpecBatch == Init /\ [][NextBatch]_vars

\* The daily evaluation run over shipments inside and outside its range of
\* ETAs, while shipments are created, completed and deleted
NextWindow ==
  \/ \E w \in Procs, eta \in WindowEtas :
       create_shipment(w, "SHP-" \o ToString(Len(shipments) + 1), eta,
                       UserDirectory, MaxWindowOps, MaxWindowed)
  \/ \E w \in Procs : WriteAudit(w)
  \/ \E w \in Procs, sid \in 1..MaxWindowed :
       StartUpdate(w, sid, [principal |-> None, status |-> Some("completed")], MaxWindowOps)
  \/ \E w \in Procs, sid \in 1..MaxWindowed : StartDelete(w, sid, MaxWindowOps)
  \/ \E w \in Procs : RepoUpdate(w)
  \/ \E w \in {"w1"} : StartBatchRun(w, MaxWindowOps)
  \/ \E w \in Procs : BatchStep(w)
  \/ \E w \in Procs, sid \in 1..MaxWindowed : StartEvaluate(w, sid, MaxWindowOps)
  \/ \E w \in Procs : EvalCheck(w)
  \/ \E w \in Procs : EvalCreate(w)

SpecWindow == Init /\ [][NextWindow]_vars

\* Recovery by the sweep: the broker refuses the message of every new alert,
\* workers are lost while they send, and the sweep and the sends recur for
\* ever.  A free worker eventually takes the sweep and each queued message,
\* a handler that has started goes on, and the transport succeeds in the end.
\* One worker creates and evaluates the shipment; both sweep and send.
NextSweep ==
  \/ \E w \in {"w1"}, num \in ShipmentNumbers :
       CreateShipment(w, num, FirstDay - WarningDay, UserDirectory, MaxSweepOps)
  \/ \E w \in Procs : WriteAudit(w)
  \/ \E w \in {"w1"}, sid \in 1..MaxShipments : StartEvaluate(w, sid, MaxSweepOps)
  \/ \E w \in Procs : EvalCheck(w)
  \/ \E w \in Procs : create_and_queue(w, FALSE)
  \/ \E w \in Procs : Sweep(w)
  \/ \E w \in Procs, t \in BagToSet(queue) : Deliver(w, t)
  \/ \E w \in Procs, success \in BOOLEAN : SendResultWithin(w, success)
  \/ \E w \in Procs : Crash(w)

SweepFairness ==
  /\ WF_vars(\E w \in Procs : WriteAudit(w) \/ EvalCheck(w) \/ create_and_queue(w, FALSE))
  /\ SF_vars(\E w \in Procs : Sweep(w))
  /\ SF_vars(\E w \in Procs, t \in BagToSet(queue) : Deliver(w, t))
  /\ SF_vars(\E w \in Procs : SendResultWithin(w, TRUE))

SpecSweep == Init /\ [][NextSweep]_vars /\ SweepFairness

\* ------------------------------------------------------------------ claims

StepsOf(sid) == {i \in 1..Len(steps) : steps[i].shipment_id = sid}

\* C1: when two mutating operations on one shipment loaded the same version v
\* and both have attempted their conditional write, exactly one of them
\* succeeded, leaving version v + 1, and the other failed with
\* ConcurrentModification.
C1_ExactlyOneWriterWins ==
  \A w1 \in Procs, w2 \in Procs :
    ( /\ w1 # w2
      /\ att[w1].sid # 0
      /\ att[w1].sid = att[w2].sid
      /\ att[w1].v = att[w2].v
      /\ att[w1].res \in {"ok", "conflict"}
      /\ att[w2].res \in {"ok", "conflict"} )
    => \E win \in {w1, w2} :
         LET lose == CHOOSE x \in {w1, w2} : x # win
         IN /\ att[win].res = "ok"
            /\ att[win].newv = att[win].v + 1
            /\ att[lose].res = "conflict"
            /\ result[lose] = "ConcurrentModification"

C1_Witness ==
  \E w1 \in Procs, w2 \in Procs :
    /\ w1 # w2
    /\ att[w1].sid # 0
    /\ att[w1].sid = att[w2].sid
    /\ att[w1].v = att[w2].v
    /\ att[w1].res = "ok"
    /\ att[w2].res = "conflict"
    /\ shipments[att[w1].sid].version = att[w1].v + 1

\* C2: an update or ETA update whose caller read version v is rejected when the
\* stored version is no longer v at submission: a write that succeeded was
\* submitted by a caller whose last read showed the version it replaced.
C2_StaleCallerRejected ==
  \A w \in Procs :
    (att[w].res = "ok" /\ att[w].seen # 0) => att[w].seen = att[w].v

\* C3: a successful conditional write of update, updateETA or softDelete raises
\* the stored version by exactly 1, and every other step, the rejections
\* included, leaves it as it was.
C3_VersionStep ==
  [][ \A sid \in 1..Len(shipments) :
        IF \E w \in Procs : pc[w] = "write" /\ req[w].sid = sid /\ att'[w].res = "ok"
        THEN shipments'[sid].version = shipments[sid].version + 1
        ELSE shipments'[sid].version = shipments[sid].version ]_vars

C3_Witness ==
  \E w1 \in Procs, w2 \in Procs :
    /\ att[w1].res = "ok"
    /\ shipments[att[w1].sid].version = att[w1].v + 1
    /\ w1 # w2
    /\ result[w2] = "EditLimitExceeded"

\* C4: the eta_edit_count of every shipment is between 0 and 3 and is the
\* number of updateETA calls whose write was committed.
C4_EditCountBounded ==
  \A sid \in 1..Len(shipments) :
    /\ shipments[sid].eta_edit_count \in 0..EtaEditLimit
    /\ shipments[sid].eta_edit_count = etaCommits[sid]

C4_Witness ==
  \E sid \in 1..Len(shipments), w \in Procs :
    /\ shipments[sid].eta_edit_count = EtaEditLimit
    /\ att[w].res = "conflict"

\* C5: updateETA on a stored, not deleted shipment whose eta_edit_count is 3
\* fails with EditLimitExceeded and leaves the shipment (eta, eta_edit_count,
\* version), the steps and the audit log as they were.
C5_FourthEditRejected ==
  [][ \A w \in Procs, sid \in 1..MaxShipments, eta \in EtaChoices :
        ( /\ ~IsNone(get_by_id(sid))
          /\ shipments[sid].eta_edit_count = EtaEditLimit
          /\ StartUpdateEta(w, sid, eta, MaxEtaOps) )
        => /\ result'[w] = "EditLimitExceeded"
           /\ pc'[w] = "idle"
           /\ shipments' = shipments
           /\ steps' = steps
           /\ audit_logs' = audit_logs ]_vars

C5_Witness ==
  \E w \in Procs, sid \in 1..Len(shipments) :
    /\ result[w] = "EditLimitExceeded"
    /\ shipments[sid].eta_edit_count = EtaEditLimit
    /\ shipments[sid].version > EtaEditLimit

\* C6: the recalculation of updateETA sets the target date of every step of the
\* shipment to new_eta + offset_days and changes nothing else of any step; the
\* other steps of updateETA leave the steps alone.
C6_RecalculationFrame ==
  [][ \A w \in Procs :
        (req[w].op = "update_eta" /\ (pc'[w] # pc[w] \/ pend'[w] # pend[w]))
        => IF pc[w] = "recalc"
           THEN /\ Len(steps') = Len(steps)
                /\ \A i \in 1..Len(steps) :
                     steps'[i] =
                       IF steps[i].shipment_id = req[w].sid
                       THEN [steps[i] EXCEPT
                               !.target_date = req[w].new_eta + steps[i].offset_days]
                       ELSE steps[i]
           ELSE steps' = steps ]_vars

C6_Witness ==
  \E w \in Procs :
    /\ req[w].op = "update_eta"
    /\ pc[w] = "audit"
    /\ \E i \in StepsOf(req[w].sid) :
         /\ steps[i].status = "completed"
         /\ ~IsNone(steps[i].actual_date)
         /\ steps[i].target_date = req[w].new_eta + steps[i].offset_days
    /\ \E a \in 1..Len(audit_logs) :
         /\ audit_logs[a].field_name = "actual_date"

\* C7: in every committed state each step's target date is the ETA of its
\* shipment plus the step's offset.
C7_TargetDatesFollowEta ==
  \A i \in 1..Len(steps) :
    steps[i].target_date = shipments[steps[i].shipment_id].eta + steps[i].offset_days

\* C8: every stored shipment has exactly one step for each active template,
\* and no other step.
C8_OneStepPerActiveTemplate ==
  \A sid \in 1..Len(shipments) :
    /\ Cardinality(StepsOf(sid)) = Len(get_all_active)
    /\ \A t \in 1..Len(get_all_active) :
         Cardinality({i \in StepsOf(sid) :
                        steps[i].step_number = get_all_active[t].step_number}) = 1

\* C9: no two unacknowledged alerts share the workflow step, the recipient and
\* the days_post_eta value.
C9_NoDuplicateActiveAlerts ==
  \A a \in 1..Len(alerts), b \in 1..Len(alerts) :
    ( /\ a # b
      /\ ~alerts[a].is_acknowledged
      /\ ~alerts[b].is_acknowledged
      /\ alerts[a].workflow_step_id = alerts[b].workflow_step_id
      /\ alerts[a].recipient_user_id = alerts[b].recipient_user_id )
    => alerts[a].days_post_eta # alerts[b].days_post_eta

\* C10: the email_retry_count of every alert is between 0 and 3.
C10_RetryCountBounded ==
  \A a \in 1..Len(alerts) : alerts[a].email_retry_count \in 0..EmailRetryLimit

\* C11: once three sends of an alert have failed (email_retry_count = 3), no
\* further send attempt of that alert is started by the scheduled tasks.
C11_NoFourthAttempt ==
  [][ \A w \in Procs :
        (pc[w] = "idle" /\ pc'[w] = "smtp")
        => alerts[req'[w].alert_id].email_retry_count < EmailRetryLimit ]_vars

\* C12: send_alert_email on an alert whose e-mail was sent returns
\* "already_sent" without calling the delivery and without changing the alert.
C12_AlreadySentGuard ==
  [][ \A w \in Procs, t \in BagToSet(queue) :
        ( /\ t.alert_id \in 1..Len(alerts)
          /\ alerts[t.alert_id].email_sent
          /\ StartSend(w, t, MaxEmailOps) )
        => /\ result'[w] = "already_sent"
           /\ pc'[w] = "idle"
           /\ alerts' = alerts ]_vars

C12_Witness ==
  \E w \in Procs, a \in 1..Len(alerts) :
    /\ result[w] = "already_sent"
    /\ alerts[a].email_sent
    /\ alerts[a].email_sent_at = Some(now)

C15_OnlyIncompleteCritical ==
  [][ /\ \A w \in Procs :
           (pc[w] = "idle" /\ pc'[w] = "eval_check")
           => /\ pend'[w] # <<>>
              /\ \A k \in 1..Len(pend'[w]) :
                   LET step == steps[pend'[w][k].workflow_step_id]
                   IN /\ step.shipment_id = req'[w].sid
                      /\ step.is_critical
                      /\ step.status # "completed"
      /\ Len(alerts') > Len(alerts)
           => \E w \in Procs :
                /\ pc[w] = "eval_create"
                /\ alerts'[Len(alerts')].workflow_step_id = Head(pend[w]).workflow_step_id
                /\ alerts'[Len(alerts')].shipment_id = req[w].sid
      /\ \A a \in 1..Len(alerts') :
           /\ steps[alerts'[a].workflow_step_id].is_critical
           /\ steps[alerts'[a].workflow_step_id].shipment_id = alerts'[a].shipment_id
    ]_vars

C15_Witness ==
  \E w \in Procs, i \in 1..Len(steps) :
    /\ result[w] = "completed"
    /\ alerts = <<>>
    /\ steps[i].is_critical
    /\ steps[i].status = "completed"
    /\ today - shipments[steps[i].shipment_id].eta >= 4

\* C16: complete_step by a user who is neither the PPR nor the APR of the step
\* fails with Forbidden, whatever the date, and leaves the steps and the audit
\* log as they were.
C16_ForbiddenCompletion ==
  [][ \A w \in Procs, step_id \in 1..Len(steps), u \in {2, 3},
         d \in {today - 1, today, today + 1} :
        ( /\ u # steps[step_id].ppr_user_id
          /\ Some(u) # steps[step_id].apr_user_id
          /\ StartCompleteStep(w, step_id, d, u, MaxOps) )
        => /\ result'[w] = "Forbidden"
           /\ pc'[w] = "idle"
           /\ steps' = steps
           /\ audit_logs' = audit_logs ]_vars

C16_Witness ==
  \E w1 \in Procs, w2 \in Procs, i \in 1..Len(steps) :
    /\ result[w1] = "Forbidden"
    /\ result[w2] = "ok"
    /\ steps[i].status = "completed"

\* C17: once a step has an actual_date, no later step of any handler changes
\* or clears it.
C17_ActualDateSetOnce ==
  [][ \A i \in 1..Len(steps) :
        ~IsNone(steps[i].actual_date)
        => steps'[i].actual_date = steps[i].actual_date ]_vars

C19_ReacknowledgeNoOp ==
  [][ \A a \in 1..Len(alerts) :
        alerts[a].is_acknowledged
        => /\ alerts'[a].is_acknowledged
           /\ alerts'[a].acknowledged_at = alerts[a].acknowledged_at ]_vars

\* C20: delete_shipment on an absent or already deleted shipment returns false
\* and changes nothing; on a stored shipment its committed write sets
\* deleted_at and status = cancelled, keeps the row, the steps and the alerts,
\* and the call returns true.
C20_SoftDelete ==
  [][ \A w \in Procs :
        /\ \A sid \in 1..MaxShipments :
             ( /\ sid \notin 1..Len(shipments) \/ ~IsNone(shipments[sid].deleted_at)
               /\ StartDelete(w, sid, MaxAlertOps) )
             => /\ result'[w] = "false"
                /\ pc'[w] = "idle"
                /\ shipments' = shipments
                /\ steps' = steps
                /\ alerts' = alerts
                /\ audit_logs' = audit_logs
        /\ (pc[w] = "write" /\ req[w].op = "delete" /\ att'[w].res = "ok")
             => /\ shipments' = [shipments EXCEPT
                                   ![req[w].sid].deleted_at = Some(today),
                                   ![req[w].sid].status = "cancelled",
                                   ![req[w].sid].version = @ + 1]
                /\ steps' = steps
                /\ alerts' = alerts
        /\ (req[w].op = "delete" /\ att[w].res # "conflict" /\ att'[w].res # "conflict"
              /\ pc[w] # "idle" /\ pc'[w] = "idle")
             => result'[w] = "true"
    ]_vars

C20_Witness ==
  \E w1 \in Procs, w2 \in Procs :
    /\ result[w1] = "true"
    /\ result[w2] = "false"
    /\ shipments[1].status = "cancelled"
    /\ ~IsNone(shipments[1].deleted_at)
    /\ \E i \in 1..Len(steps) : steps[i].shipment_id = 1
    /\ \E a \in 1..Len(alerts) : alerts[a].shipment_id = 1
\* C21: a create whose shipment_number is already stored, by a live or a deleted
\* shipment, fails with DuplicateKey and leaves the shipments, the steps and
\* the audit log as they were; a create with an unused number stores one
\* shipment; so no two stored shipments share a number, and of two creates
\* of one number, overlapping or not, exactly one succeeds.
C21_DuplicateCreate ==
  /\ [](\A i, j \in 1..Len(shipments) :
          shipments[i].shipment_number = shipments[j].shipment_number => i = j)
  /\ [][ \A w \in Procs, num \in CreateNumbers, eta \in EtaChoices :
           (/\ pc[w] = "idle"
            /\ create_shipment(w, num, eta, UserDirectory, MaxCreateOps, MaxCreated))
           => IF \E i \in 1..Len(shipments) : shipments[i].shipment_number = num
              THEN /\ result'[w] = "DuplicateKey"
                   /\ shipments' = shipments
                   /\ steps' = steps
                   /\ audit_logs' = audit_logs
              ELSE /\ Len(shipments') = Len(shipments) + 1
                   /\ shipments'[Len(shipments')].shipment_number = num
                   /\ result'[w] # "DuplicateKey" ]_vars

\* The second of two overlapping creates of one number has failed while the
\* first is still writing its audit record.
C21_Witness ==
  /\ result["w2"] = "DuplicateKey"
  /\ pc["w1"] = "audit" /\ req["w1"].op = "create"
  /\ Len(shipments) = 1
  /\ audit_logs = <<>>

\* C22: in a run of the batch evaluation, every shipment the run has passed
\* is either evaluated or is one whose own evaluation raised the error: an
\* error in one shipment keeps no other shipment of the run from being
\* evaluated.
C22_OthersStillEvaluated ==
  \A w \in Procs : run[w].skipped = {}

\* C24: when the broker refuses the message of a newly created alert, the alert
\* is stored with email_sent false and retry count 0, no message is queued, no
\* error leaves the evaluation, and the evaluation goes on with the next
\* (step, recipient) pair, or ends as an evaluation that succeeded.
C24_EnqueueFailureAbsorbed ==
  [][ \A w \in Procs :
        (/\ pc[w] = "eval_create"
         /\ create_and_queue(w, FALSE))
        => /\ Len(alerts') = Len(alerts) + 1
           /\ LET a == alerts'[Len(alerts')]
              IN /\ a.shipment_id = req[w].sid
                 /\ a.workflow_step_id = Head(pend[w]).workflow_step_id
                 /\ a.recipient_user_id = Head(pend[w]).recipient_user_id
                 /\ ~a.email_sent
                 /\ a.email_retry_count = 0
           /\ queue' = queue
           /\ run'[w].raised = run[w].raised
           /\ IF Len(pend[w]) > 1
              THEN pc'[w] = "eval_check" /\ pend'[w] = Tail(pend[w])
              ELSE /\ pc'[w] = "batch"
                   /\ run'[w].evaluated = run[w].evaluated \cup {req[w].sid} ]_vars

\* The first alert of a shipment was refused by the broker, and the run has
\* created and queued the alert of the shipment's next recipient.
C24_Witness ==
  /\ Len(alerts) = 2
  /\ run["w2"] = NoRun
  /\ alerts[1].shipment_id = alerts[2].shipment_id
  /\ alerts[1].recipient_user_id # alerts[2].recipient_user_id
  /\ ~alerts[1].email_sent /\ alerts[1].email_retry_count = 0
  /\ queue = SetToBag({EmailTask(2, 0)})
  /\ run["w1"].evaluated = {1}

\* C30: while a batch of an evaluation run is not yet committed, none of the
\* alerts the run has created in the batch is in the alerts table.
C30_BatchCommittedAsUnit ==
  \A w \in Procs :
    pc[w] \in {"batch", "eval_check", "eval_create"}
      => run[w].created \cap (1..Len(alerts)) = {}

C25_ConflictWritesNothing ==
  [][ \A w \in Procs :
        (/\ pc[w] = "write"
         /\ RepoUpdate(w)
         /\ result'[w] = "ConcurrentModification")
        => /\ shipments' = shipments
           /\ steps' = steps
           /\ audit_logs' = audit_logs
           /\ etaCommits' = etaCommits
           /\ opsStarted' = opsStarted
           /\ pc'[w] = "idle" /\ req'[w] = NoReq /\ pend'[w] = <<>> ]_vars

\* An ETA update of one worker has been committed and the write of the other
\* worker, loaded before it, has failed; the shipment has steps.
C25_Witness ==
  /\ result["w2"] = "ConcurrentModification"
  /\ att["w2"].res = "conflict"
  /\ att["w1"].res = "ok"
  /\ Len(shipments) = 1
  /\ shipments[1].eta_edit_count = 1
  /\ shipments[1].version = 2
  /\ steps # <<>>

\* The audit records of a field of a shipment
AuditRowsOf(sid, field) ==
  {i \in 1..Len(audit_logs) :
     /\ audit_logs[i].entity_type = "shipment"
     /\ audit_logs[i].entity_id = sid
     /\ audit_logs[i].field_name = field}

\* C26: when no handler is running, every committed ETA update of a shipment
\* has one audit record for eta_edit_count, a deleted shipment has one
\* record for its deleted timestamp and one for its status becoming
\* cancelled, and no record of eta, principal or status has an old value equal
\* to its new value.
C26_AuditPerChangedField ==
  (\A w \in Procs : pc[w] = "idle")
    => \A sid \in 1..Len(shipments) :
         /\ Cardinality(AuditRowsOf(sid, "eta_edit_count")) = etaCommits[sid]
         /\ ~IsNone(shipments[sid].deleted_at)
              => /\ Cardinality(AuditRowsOf(sid, "deleted_at")) = 1
                 /\ \E i \in AuditRowsOf(sid, "status") :
                      audit_logs[i].new_value = Some("cancelled")
         /\ \A f \in {"eta", "principal", "status"} :
              \A i \in AuditRowsOf(sid, f) :
                audit_logs[i].old_value # audit_logs[i].new_value

\* C27: with the audit service present, in every state the eta records and the
\* eta_edit_count records of a shipment are as many as its committed ETA
\* updates: no reader finds the new eta and version without the two audit
\* records, nor the records without the update.
C27_EtaAuditAtomic ==
  wiring = "full"
    => \A sid \in 1..Len(shipments) :
         /\ Cardinality(AuditRowsOf(sid, "eta")) = etaCommits[sid]
         /\ Cardinality(AuditRowsOf(sid, "eta_edit_count")) = etaCommits[sid]

\* C28: a create that succeeds stores a shipment with version 1, status
\* active, eta_edit_count 0 and no deleted timestamp, with the number and the
\* ETA of the request; and every step it generates belongs to the shipment,
\* is pending, has no actual date and has the target date ETA + offset_days of
\* its template, earlier than the ETA for a negative offset.
C28_CreatedState ==
  [][ \A w \in Procs, num \in CreateNumbers, eta \in EtaChoices :
        (/\ pc[w] = "idle"
         /\ create_shipment(w, num, eta, UserDirectory, MaxCreateOps, MaxCreated)
         /\ result'[w] # "DuplicateKey")
        => /\ Len(shipments') = Len(shipments) + 1
           /\ LET sid == Len(shipments')
                  row == shipments'[sid]
              IN /\ row.shipment_number = num /\ row.eta = eta
                 /\ row.version = 1 /\ row.status = "active"
                 /\ row.eta_edit_count = 0 /\ IsNone(row.deleted_at)
                 /\ \A i \in 1..Len(steps) : steps'[i] = steps[i]
                 /\ \A i \in (Len(steps) + 1)..Len(steps') :
                      /\ steps'[i].shipment_id = sid
                      /\ steps'[i].status = "pending"
                      /\ IsNone(steps'[i].actual_date)
                      /\ \E k \in 1..Len(WorkflowStepTemplates) :
                           /\ WorkflowStepTemplates[k].step_number = steps'[i].step_number
                           /\ steps'[i].target_date =
                                eta + WorkflowStepTemplates[k].offset_days ]_vars

\* A shipment has been created with its steps, one of them due before the ETA
\* and one on the day of the ETA.
C28_Witness ==
  /\ Len(shipments) >= 1
  /\ shipments[1].version = 1
  /\ \E i, j \in 1..Len(steps) :
       /\ steps[i].shipment_id = 1 /\ steps[i].target_date < shipments[1].eta
       /\ steps[j].shipment_id = 1 /\ steps[j].target_date = shipments[1].eta

\* C29: a send whose delivery fails adds exactly 1 to the stored retry count
\* of the alert and queues exactly one message for a retry when the new count
\* is below 3 and none otherwise; a send that succeeds sets email_sent and
\* email_sent_at and leaves the retry count as it was.
C29_OneRetryPerFailure ==
  [][ \A w \in Procs :
        LET id == req[w].alert_id
        IN /\ (pc[w] = "smtp" /\ SendResult(w, FALSE))
              => /\ alerts'[id].email_retry_count = alerts[id].email_retry_count + 1
                 /\ alerts'[id].email_sent = alerts[id].email_sent
                 /\ BagCardinality(queue') = BagCardinality(queue) +
                      (IF alerts'[id].email_retry_count < EmailRetryLimit THEN 1 ELSE 0)
           /\ (pc[w] = "smtp" /\ SendResult(w, TRUE))
              => /\ alerts'[id].email_sent
                 /\ ~IsNone(alerts'[id].email_sent_at)
                 /\ alerts'[id].email_retry_count = alerts[id].email_retry_count
                 /\ queue' = queue ]_vars

\* C31: the candidates of a batch evaluation run are exactly the shipments
\* that, when the run queries them, are active, not deleted and have their ETA
\* from today - 30 to today; and every alert the run creates is for one of
\* its candidates.
C31_RunWithinWindow ==
  /\ [][ \A w \in Procs :
           (pc[w] = "idle" /\ StartBatchRun(w, MaxWindowOps))
           => LET r == run'[w]
              IN /\ \A k, l \in 1..Len(r.candidates) :
                      r.candidates[k] = r.candidates[l] => k = l
                 /\ {r.candidates[k] : k \in 1..Len(r.candidates)} =
                      {i \in 1..Len(shipments) :
                         /\ shipments[i].status = "active"
                         /\ IsNone(shipments[i].deleted_at)
                         /\ today - 30 <= shipments[i].eta
                         /\ shipments[i].eta <= today} ]_vars
  /\ [][ \A w \in Procs :
           (pc[w] = "eval_create" /\ req[w].op = "batch" /\ EvalCreate(w))
           => \E k \in 1..Len(run[w].candidates) :
                alerts'[Len(alerts')].shipment_id = run[w].candidates[k] ]_vars

\* A run has completed with alerts for the shipment inside the range and none
\* for the older shipment outside it.
C31_Witness ==
  /\ Len(shipments) = 2
  /\ shipments[1].eta < today - 30 /\ shipments[1].status = "active"
  /\ shipments[2].eta = today - WarningDay
  /\ result["w1"] = "completed"
  /\ alerts # <<>>
  /\ \A a \in 1..Len(alerts) : alerts[a].shipment_id = 2

\* C32: when a batch evaluation run completes, the processed and the error
\* count of its summary add up to the number of its candidates, and
\* alerts_created is the number of alerts the run has stored.
C32_SummaryCounts ==
  [][ \A w \in Procs :
        (pc[w] = "batch" /\ BatchStep(w) /\ pc'[w] = "idle")
        => /\ summary(run[w]).processed + summary(run[w]).errors =
                summary(run[w]).total_shipments
           /\ summary(run[w]).alerts_created = run[w].stored ]_vars

\* C37: whenever an evaluation, of the batch run or of one shipment, stores an
\* alert, the shipment of the alert is at that moment active and not deleted.
C37_NoAlertForInactive ==
  [][ \A w \in Procs :
        (pc[w] = "eval_create" /\ EvalCreate(w))
        => LET sid == alerts'[Len(alerts')].shipment_id
           IN /\ shipments[sid].status = "active"
              /\ IsNone(shipments[sid].deleted_at) ]_vars

C34_DistinctErrorCodes ==
  [][ \A w \in Procs, sid \in 1..MaxShipments :
        /\ \A data \in UpdatePayloads :
             (StartUpdate(w, sid, data, MaxOps) /\ result'[w] = "NotFound")
             => error_response("update_shipment", raised(result'[w])).code = "NOT_FOUND"
        /\ \A eta \in EtaChoices :
             (StartUpdateEta(w, sid, eta, MaxOps) /\ result'[w] = "NotFound")
             => error_response("update_eta", raised(result'[w])).code = "NOT_FOUND"
        /\ \A eta \in EtaChoices :
             (StartUpdateEta(w, sid, eta, MaxOps) /\ result'[w] = "EditLimitExceeded")
             => error_response("update_eta", raised(result'[w])).code = "ETA_EDIT_LIMIT_EXCEEDED"
        /\ \A num \in ShipmentNumbers, eta \in EtaChoices :
             ( /\ CreateShipment(w, num, eta, UserDirectory, MaxOps)
               /\ result'[w] = "DuplicateKey" )
             => error_response("create_shipment", raised(result'[w])).status = 409
        /\ (RepoUpdate(w) /\ result'[w] = "ConcurrentModification")
           => error_response("update_shipment", raised(result'[w])).code
                = "CONCURRENT_MODIFICATION" ]_vars

\* C35: for every alert the transport delivers its notification successfully
\* at most once: no send succeeds for an alert whose notification has already
\* been delivered, whatever the interleaving of the original message, the
\* retries and the messages of the sweeps.
C35_DeliveredAtMostOnce ==
  [][ \A w \in Procs :
        (pc[w] = "smtp" /\ SendResult(w, TRUE))
        => ~alerts[req[w].alert_id].email_sent ]_vars

\* C36: once an alert for a step, a recipient and a day is acknowledged, an
\* evaluation of the shipment on that day, the step still incomplete, creates
\* no new alert for the same step, recipient and day.
C36_AcknowledgedNotRearmed ==
  [][ \A w \in Procs :
        (pc[w] = "eval_create" /\ EvalCreate(w))
        => LET new == alerts'[Len(alerts')]
           IN ~\E a \in 1..Len(alerts) :
                 /\ alerts[a].is_acknowledged
                 /\ alerts[a].workflow_step_id = new.workflow_step_id
                 /\ alerts[a].recipient_user_id = new.recipient_user_id
                 /\ alerts[a].days_post_eta = new.days_post_eta ]_vars

\* C38: after soft_delete has succeeded on a shipment, every update, updateETA
\* or softDelete that acts on it afterwards, one that loaded the shipment
\* before the deletion committed included, fails and changes nothing: the row
\* of the shipment and the target dates of its steps stay as they were at the
\* deletion.
C38_DeletedIsFrozen ==
  [][ \A sid \in 1..Len(shipments) :
        ~IsNone(shipments[sid].deleted_at)
        => /\ shipments'[sid] = shipments[sid]
           /\ \A i \in StepsOf(sid) : steps'[i].target_date = steps[i].target_date
           /\ \A w \in Procs :
                (req[w].sid = sid /\ pc[w] = "write" /\ pc'[w] # "write")
                => pc'[w] = "idle" /\ result'[w] = "ConcurrentModification"
           /\ \A w \in Procs :
                (pc[w] = "idle" /\ req'[w].op \in {"update", "update_eta", "delete"})
                => req'[w].sid # sid ]_vars

\* C39: in every reachable state a workflow step has status Completed if and
\* only if its actual_date is set: steps are created Pending with no
\* actual_date, and the write of complete_step is the only step of a handler
\* that changes either field, after which the step is Completed with a date.
C39_CompletedIffDated ==
  /\ [](\A i \in 1..Len(steps) :
          steps[i].status = "completed" <=> ~IsNone(steps[i].actual_date))
  /\ [][ /\ \A i \in (Len(steps) + 1)..Len(steps') :
              steps'[i].status = "pending" /\ IsNone(steps'[i].actual_date)
         /\ \A i \in 1..Len(steps) :
              ( \/ steps'[i].status # steps[i].status
                \/ steps'[i].actual_date # steps[i].actual_date )
              => /\ \E w \in Procs :
                      pc[w] = "step_write" /\ req[w].step_id = i /\ StepUpdate(w)
                 /\ steps'[i].status = "completed"
                 /\ ~IsNone(steps'[i].actual_date) ]_vars

C39_Witness ==
  \E i \in 1..Len(steps), j \in 1..Len(steps) :
    /\ steps[i].shipment_id = steps[j].shipment_id
    /\ steps[i].status = "completed"
    /\ ~IsNone(steps[i].actual_date)
    /\ steps[j].status = "pending"
    /\ IsNone(steps[j].actual_date)
    /\ etaCommits[steps[i].shipment_id] >= 1
    /\ steps[j].target_date = shipments[steps[j].shipment_id].eta + steps[j].offset_days
    /\ \A w \in Procs : pc[w] = "idle"

\* C40: a complete_step and an updateETA that run at the same time on one
\* shipment lose neither effect.  The write of the completion, made while the
\* ETA update is under way, completes the step with the supplied date and
\* leaves every target date as it is; the recalculation, made while the
\* completion is under way, sets every target date of the shipment to
\* new_eta + offset_days and leaves status and actual_date as they are; and
\* when both have ended the step is Completed and every target date is the new
\* ETA plus the offset.
C40_NeitherEffectLost ==
  /\ [][ \A w \in Procs, v \in Procs :
           ( /\ req[w].op = "complete" /\ req[v].op = "update_eta"
             /\ req[w].sid = req[v].sid )
           => /\ ( /\ pc[w] = "step_write"
                   /\ steps[req[w].step_id].actual_date = Val(obj[w]).actual_date
                   /\ StepUpdate(w) )
                 => /\ steps'[req[w].step_id].status = "completed"
                    /\ steps'[req[w].step_id].actual_date = Some(req[w].actual_date)
                    /\ \A i \in 1..Len(steps) : steps'[i].target_date = steps[i].target_date
              /\ (pc[v] = "recalc" /\ update_target_dates_bulk(v))
                 => \A i \in StepsOf(req[v].sid) :
                      /\ steps'[i].target_date = req[v].new_eta + steps[i].offset_days
                      /\ steps'[i].status = steps[i].status
                      /\ steps'[i].actual_date = steps[i].actual_date ]_vars
  /\ [](\A w \in Procs, v \in Procs :
          ( /\ req[w].op = "complete" /\ pc[w] = "audit"
            /\ req[v].op = "update_eta" /\ pc[v] = "audit"
            /\ req[w].sid = req[v].sid
            /\ etaCommits[req[v].sid] = 1 )
          => /\ steps[req[w].step_id].status = "completed"
             /\ \A i \in StepsOf(req[v].sid) :
                  steps[i].target_date = req[v].new_eta + steps[i].offset_days)

C40_Witness ==
  \E w \in Procs, v \in Procs :
    /\ req[w].op = "complete" /\ pc[w] = "audit"
    /\ req[v].op = "update_eta" /\ pc[v] = "audit"
    /\ req[w].sid = req[v].sid
    /\ pend[v] # <<>>
    /\ Head(pend[v]).field_name = "eta"
    /\ Head(pend[v]).old_value # Head(pend[v]).new_value
    /\ steps[req[w].step_id].status = "completed"
    /\ steps[req[w].step_id].actual_date = Some(req[w].actual_date)
    /\ \A i \in StepsOf(req[v].sid) :
         steps[i].target_date = req[v].new_eta + steps[i].offset_days

====
